---- MODULE Spec2Model ----
(***************************************************************************)
(* Model of the two scripts of the face-mask dataset repository:           *)
(*   upload_to_roboflow.py  (the uploader: module load, load_config, main, *)
(*                           the gating stages and the upload loop)        *)
(*   test_setup.py          (the validator: the four checks and main)      *)
(* One run of one script is one behaviour.  The process environment, the   *)
(* .env file, the installed packages and the dataset tree are the inputs   *)
(* of a run; answers typed at prompts and the outcomes of calls to the     *)
(* external service are chosen when the call is made.                      *)
(***************************************************************************)
EXTENDS Integers, Sequences, FiniteSets, TLC

\* Largest number of images of an ordinary split/class directory.
MaxImages == 1

\* upload_dataset prints progress when idx % 10 == 0.
ProgressEvery == 10

VARIABLES
    script,            \* which script this run executes
    pc,                \* position of the run
    procenv,           \* the environment the process was started with
    environ,           \* os.environ, restricted to the recognised keys
    dotfile,           \* the .env file: whether it exists, and its KEY=VALUE lines
    dotenvInstalled,   \* python-dotenv can be imported
    sdkInstalled,      \* roboflow can be imported
    DOTENV_AVAILABLE,  \* uploader's module-level flag
    config,            \* uploader's module-level config (API_KEY, WORKSPACE_ID, ...)
    tree,              \* the dataset tree found at the dataset path
    ran,               \* stages (uploader) or checks (validator) called so far, in order
    failedAt,          \* the uploader stage that made main return False, or "none"
    reported,          \* configuration keys reported missing
    calls,             \* kinds of calls made to the external service
    answer,            \* what was typed at the upload confirmation prompt
    authResult,        \* outcome of Roboflow(api_key) / rf.workspace()
    projResult,        \* outcome of resolving the configured workspace/project
    yamlWritten,       \* data.yaml was written
    split, cls,        \* upload loop: position in splits / CLASS_NAMES (1-based)
    n, idx,            \* upload loop: len(images) and enumerate index of the batch
    total_uploaded,    \* upload loop: the success counter
    attempted,         \* number of project.upload calls made
    failed,            \* number of project.upload calls that raised
    progress,          \* what the last loop iteration printed
    results,           \* validator: the results dict of main
    total_images,      \* validator: total printed by test_dataset_structure
    success            \* value returned by main ("pending" until it returns)

vars == << script, pc, procenv, environ, dotfile, dotenvInstalled, sdkInstalled,
           DOTENV_AVAILABLE, config, tree, ran, failedAt, reported, calls,
           answer, authResult, projResult, yamlWritten, split, cls, n, idx,
           total_uploaded, attempted, failed, progress, results,
           total_images, success >>

----------------------------------------------------------------------------
(* Values *)

None == "<None>"                       \* Python's None / an unset variable
Truthy(v) == v /= None /\ v /= ""      \* Python truthiness of an optional string

API == "ROBOFLOW_API_KEY"
WS == "ROBOFLOW_WORKSPACE_ID"
PROJ == "ROBOFLOW_PROJECT_ID"
PATH == "DATASET_PATH"
Keys == {API, WS, PROJ, PATH}

\* test_env_file's required_keys
required_keys == <<API, WS, PROJ, PATH>>

DefaultDatasetPath == "./dataset"

\* Dataset layout
UploadSplits == <<"train", "val", "test">>     \* upload_dataset, test_dataset_structure
VerifySplits == <<"train", "test", "val">>     \* verify_dataset_structure
CLASS_NAMES == <<"WithMask", "WithoutMask">>

Range(s) == {s[i] : i \in DOMAIN s}
Splits == Range(UploadSplits)
Classes == Range(CLASS_NAMES)
AllDirs == Splits \X Classes

\* Path.exists() of the dataset root, of a split and of a split/class directory
RootExists(t) == t.root
SplitExists(t, s) == s \in t.splits
ClassDirExists(t, s, c) == s \in t.splits /\ <<s, c>> \in t.dirs

\* len(glob('*.png') + glob('*.jpg') + glob('*.jpeg')) of a class directory
ImageCount(t, s, c) == t.count[<<s, c>>]

----------------------------------------------------------------------------
(* Configuration loading *)

\* dotenv.load_dotenv(): variables of the file are added to the environment,
\* variables already in the environment are kept (override=False).
load_dotenv(e, f) ==
    IF f.exists
    THEN [k \in Keys |-> IF e[k] /= None THEN e[k] ELSE f.kv[k]]
    ELSE e

\* load_config's manual fallback: os.environ[key] = value for every
\* KEY=VALUE line of the file.
manual_env(e, f) ==
    IF f.exists
    THEN [k \in Keys |-> IF f.kv[k] /= None THEN f.kv[k] ELSE e[k]]
    ELSE e

\* os.getenv(key) and os.getenv(key, default)
getenv(e, k) == e[k]
getenv_default(e, k, d) == IF e[k] = None THEN d ELSE e[k]

\* The config dict built by load_config from the environment.
config_of(e) ==
    [api_key |-> getenv(e, API),
     workspace_id |-> getenv(e, WS),
     project_id |-> getenv(e, PROJ),
     dataset_path |-> getenv_default(e, PATH, DefaultDatasetPath)]

NoConfig == [api_key |-> None, workspace_id |-> None, project_id |-> None,
             dataset_path |-> None]

----------------------------------------------------------------------------
(* Dataset structure checks, as functions of the tree *)

\* verify_dataset_structure: the issues list.
VerifyIssues(t) ==
    {<<s>> : s \in {x \in Range(VerifySplits) : ~SplitExists(t, x)}}
    \cup {<<d[1], d[2]>> : d \in {x \in AllDirs :
                SplitExists(t, x[1]) /\ ~ClassDirExists(t, x[1], x[2])}}

\* A check that looks at the split directories only.
verify_splits_only(t) == \A s \in Range(VerifySplits) : SplitExists(t, s)

verify_dataset_structure(t) == VerifyIssues(t) = {}

\* test_dataset_structure: the running total over classes of one split ...
RECURSIVE CountClasses(_, _, _)
CountClasses(t, s, j) ==
    IF j > Len(CLASS_NAMES) THEN 0
    ELSE (IF ClassDirExists(t, s, CLASS_NAMES[j])
          THEN ImageCount(t, s, CLASS_NAMES[j]) ELSE 0)
         + CountClasses(t, s, j + 1)

\* ... and over the splits, from split number i on.
RECURSIVE CountSplits(_, _)
CountSplits(t, i) ==
    IF i > Len(UploadSplits) THEN 0
    ELSE (IF SplitExists(t, UploadSplits[i])
          THEN CountClasses(t, UploadSplits[i], 1) ELSE 0)
         + CountSplits(t, i + 1)

\* Number of image files of the tree.
TotalImages(t) == CountSplits(t, 1)

\* test_dataset_structure's return value once dotenv is imported.
test_dataset_structure(t) ==
    IF ~RootExists(t) THEN FALSE ELSE TotalImages(t) > 0

----------------------------------------------------------------------------
(* Inputs of a run *)

EnvValues == {None, "", "e"}
FileValues == {None, "f"}
Envs == [Keys -> EnvValues]
NoDotfile == [exists |-> FALSE, kv |-> [k \in Keys |-> None]]
DotFiles == {NoDotfile} \cup {[exists |-> TRUE, kv |-> f] : f \in [Keys -> FileValues]}
GoodEnv == [k \in Keys |-> "e"]
GoodDotfile == [exists |-> TRUE, kv |-> [k \in Keys |-> "f"]]

MkTree(ss, ds, cnt) ==
    [root |-> TRUE, splits |-> ss, dirs |-> ds,
     count |-> [d \in AllDirs |-> IF d \in ds THEN cnt[d] ELSE 0]]

NoDataset ==
    [root |-> FALSE, splits |-> {}, dirs |-> {}, count |-> [d \in AllDirs |-> 0]]

\* Every tree whose directories hold at most MaxImages images each; any split
\* and any class directory may be missing.
SmallTrees ==
    {NoDataset} \cup
    UNION { UNION { {MkTree(ss, ds, cnt) : cnt \in [ds -> 0..MaxImages]}
                    : ds \in SUBSET (ss \X Classes) }
            : ss \in SUBSET Splits }

\* Complete trees with one large directory (ProgressEvery + k images) and
\* c images in each of the others.
BigTrees ==
    { MkTree(Splits, AllDirs,
             [d \in AllDirs |-> IF d = big THEN ProgressEvery + k ELSE c])
      : big \in AllDirs, k \in 0..MaxImages, c \in 0..MaxImages }

\* A few trees for the runs that vary the configuration: no dataset, a
\* complete tree without images, a complete tree with a single image.
SampleTrees ==
    { NoDataset,
      MkTree(Splits, AllDirs, [d \in AllDirs |-> 0]),
      MkTree(Splits, AllDirs,
             [d \in AllDirs |-> IF d = <<UploadSplits[1], CLASS_NAMES[1]>>
                                THEN 1 ELSE 0]) }

Responses == {"y", "Y", "n", ""}

\* str.lower() on the answers of Responses
Lower(r) == IF r = "Y" THEN "y" ELSE r

NoResults == [env |-> "unset", pkg |-> "unset", struct |-> "unset", conn |-> "unset"]

InitRest ==
    /\ script \in {"uploader", "validator"}
    /\ pc = IF script = "uploader" THEN "module" ELSE "test_env_file"
    /\ environ = procenv
    /\ dotenvInstalled \in BOOLEAN
    /\ sdkInstalled \in BOOLEAN
    /\ DOTENV_AVAILABLE = FALSE
    /\ config = NoConfig
    /\ ran = << >>
    /\ failedAt = "none"
    /\ reported = {}
    /\ calls = {}
    /\ answer = None
    /\ authResult = "none"
    /\ projResult = "none"
    /\ yamlWritten = FALSE
    /\ split = 1 /\ cls = 1 /\ n = 0 /\ idx = 0
    /\ total_uploaded = 0 /\ attempted = 0 /\ failed = 0
    /\ progress = "none"
    /\ results = NoResults
    /\ total_images = 0
    /\ success = "pending"

\* Runs over every configuration, on a few trees.
InitConfigs ==
    /\ procenv \in Envs
    /\ dotfile \in DotFiles
    /\ tree \in SampleTrees
    /\ InitRest

\* Runs over every tree, with a complete configuration.
InitTrees ==
    /\ procenv = GoodEnv
    /\ dotfile = GoodDotfile
    /\ tree \in SmallTrees \cup BigTrees
    /\ InitRest

Init == InitConfigs \/ InitTrees

----------------------------------------------------------------------------
(* Variable groups *)

inputV == << script, procenv, dotfile, tree >>
pkgV == << dotenvInstalled, sdkInstalled >>
cfgV == << environ, DOTENV_AVAILABLE, config >>
netV == << calls, authResult, projResult >>
loopV == << split, cls, n, idx, total_uploaded, attempted, failed, progress >>
valV == << results, total_images >>

----------------------------------------------------------------------------
(* The uploader: upload_to_roboflow.py *)

\* Module load: try: from dotenv import load_dotenv; load_dotenv()
ImportDotenv ==
    /\ script = "uploader" /\ pc = "module"
    /\ IF dotenvInstalled
       THEN environ' = load_dotenv(environ, dotfile) /\ DOTENV_AVAILABLE' = TRUE
       ELSE environ' = environ /\ DOTENV_AVAILABLE' = FALSE
    /\ pc' = "load_config"
    /\ UNCHANGED << inputV, pkgV, config, netV, loopV, valV, ran, failedAt,
                    reported, answer, yamlWritten, success >>

\* config = load_config() and the module-level constants taken from it
LoadConfig ==
    /\ script = "uploader" /\ pc = "load_config"
    /\ environ' = IF ~DOTENV_AVAILABLE THEN manual_env(environ, dotfile) ELSE environ
    /\ config' = config_of(environ')
    /\ pc' = "main"
    /\ UNCHANGED << inputV, pkgV, DOTENV_AVAILABLE, netV, loopV, valV, ran,
                    failedAt, reported, answer, yamlWritten, success >>

\* main returns False at `stage`; sys.exit(1) follows.
Fail(stage) ==
    /\ failedAt' = stage
    /\ success' = "False"
    /\ pc' = "exit"

\* main passes `stage` and goes on to `next`.
Pass(next) ==
    /\ pc' = next
    /\ UNCHANGED << failedAt, success >>

\* A configuration check that looks at the API key only.
MainConfigKeyOnly ==
    /\ script = "uploader" /\ pc = "main"
    /\ ran' = Append(ran, "config")
    /\ IF ~Truthy(config.api_key)
       THEN reported' = reported \cup {API} /\ Fail("config")
       ELSE reported' = reported /\ Pass("sdk")
    /\ UNCHANGED << inputV, pkgV, cfgV, netV, loopV, valV, answer, yamlWritten >>

\* Step 0: validate configuration.
MainConfig ==
    /\ script = "uploader" /\ pc = "main"
    /\ ran' = Append(ran, "config")
    /\ IF ~Truthy(config.api_key)
       THEN reported' = reported \cup {API} /\ Fail("config")
       ELSE IF ~Truthy(config.workspace_id) \/ ~Truthy(config.project_id)
       THEN reported' = reported \cup {WS, PROJ} /\ Fail("config")
       ELSE reported' = reported /\ Pass("sdk")
    /\ UNCHANGED << inputV, pkgV, cfgV, netV, loopV, valV, answer, yamlWritten >>

\* Step 1: import roboflow, or offer to install it (install_roboflow).
MainSdk ==
    /\ script = "uploader" /\ pc = "sdk"
    /\ ran' = Append(ran, "sdk")
    /\ IF sdkInstalled
       THEN Pass("verify") /\ UNCHANGED pkgV
       ELSE \E response \in Responses, installed \in BOOLEAN :
              IF Lower(response) = "y" /\ installed
              THEN /\ sdkInstalled' = TRUE
                   /\ dotenvInstalled' = TRUE
                   /\ Pass("verify")
              ELSE Fail("sdk") /\ UNCHANGED pkgV
    /\ UNCHANGED << inputV, cfgV, netV, loopV, valV, reported, answer, yamlWritten >>

\* Step 2: verify_dataset_structure().
MainVerify ==
    /\ script = "uploader" /\ pc = "verify"
    /\ ran' = Append(ran, "verify")
    /\ IF verify_dataset_structure(tree) THEN Pass("yaml") ELSE Fail("verify")
    /\ UNCHANGED << inputV, pkgV, cfgV, netV, loopV, valV, reported, answer,
                    yamlWritten >>

\* Step 3: create_data_yaml(); opening or writing the file may raise.
MainYaml ==
    /\ script = "uploader" /\ pc = "yaml"
    /\ ran' = Append(ran, "yaml")
    /\ \E written \in BOOLEAN :
          /\ yamlWritten' = written
          /\ IF written THEN Pass("auth") ELSE Fail("yaml")
    /\ UNCHANGED << inputV, pkgV, cfgV, netV, loopV, valV, reported, answer >>

\* Step 4: check_authentication().
MainAuth ==
    /\ script = "uploader" /\ pc = "auth"
    /\ ran' = Append(ran, "auth")
    /\ IF ~Truthy(config.api_key)
       THEN Fail("auth") /\ UNCHANGED << environ, netV >>
       ELSE /\ environ' = [environ EXCEPT ![API] = config.api_key]
            /\ IF ~sdkInstalled
               THEN Fail("auth") /\ UNCHANGED netV
               ELSE \E ok \in BOOLEAN :
                      /\ calls' = calls \cup {"authenticate"}
                      /\ authResult' = IF ok THEN "ok" ELSE "raised"
                      /\ UNCHANGED projResult
                      /\ IF ok THEN Pass("confirm") ELSE Fail("auth")
    /\ UNCHANGED << inputV, pkgV, DOTENV_AVAILABLE, config, loopV, valV,
                    reported, answer, yamlWritten >>

\* A confirmation prompt whose answer is read and ignored.
MainConfirmAny ==
    /\ script = "uploader" /\ pc = "confirm"
    /\ ran' = Append(ran, "confirm")
    /\ \E response \in Responses :
          /\ answer' = response
          /\ Pass("upload")
    /\ UNCHANGED << inputV, pkgV, cfgV, netV, loopV, valV, reported, yamlWritten >>

\* Step 5: confirmation prompt.
MainConfirm ==
    /\ script = "uploader" /\ pc = "confirm"
    /\ ran' = Append(ran, "confirm")
    /\ \E response \in Responses :
          /\ answer' = response
          /\ IF Lower(response) /= "y" THEN Fail("confirm") ELSE Pass("upload")
    /\ UNCHANGED << inputV, pkgV, cfgV, netV, loopV, valV, reported, yamlWritten >>

\* Step 6, upload_dataset() up to the loop: Roboflow(api_key),
\* rf.workspace(WORKSPACE_ID), workspace.project(PROJECT_ID); any of them may
\* raise, and upload_dataset then returns False.
UploadResolve ==
    /\ script = "uploader" /\ pc = "upload"
    /\ ran' = Append(ran, "upload")
    /\ IF ~sdkInstalled
       THEN Fail("upload") /\ UNCHANGED << netV, loopV >>
       ELSE \E ok \in BOOLEAN :
              /\ calls' = calls \cup {"resolve"}
              /\ projResult' = IF ok THEN "ok" ELSE "raised"
              /\ UNCHANGED authResult
              /\ IF ok
                 THEN /\ split' = 1 /\ cls' = 1 /\ total_uploaded' = 0
                      /\ UNCHANGED << n, idx, attempted, failed, progress >>
                      /\ Pass("batch")
                 ELSE Fail("upload") /\ UNCHANGED loopV
    /\ UNCHANGED << inputV, pkgV, cfgV, valV, reported, answer, yamlWritten >>

\* The next (split, class) position of the nested for loops.
NextSplit(s, c) == IF c < Len(CLASS_NAMES) THEN s ELSE s + 1
NextClass(s, c) == IF c < Len(CLASS_NAMES) THEN c + 1 ELSE 1

\* Body of `for class_name in CLASS_NAMES` up to the inner loop: a missing
\* directory is skipped, otherwise its images are listed.
BatchStart ==
    /\ script = "uploader" /\ pc = "batch" /\ split <= Len(UploadSplits)
    /\ IF ~ClassDirExists(tree, UploadSplits[split], CLASS_NAMES[cls])
       THEN /\ split' = NextSplit(split, cls) /\ cls' = NextClass(split, cls)
            /\ UNCHANGED << pc, n, idx, progress >>
       ELSE /\ n' = ImageCount(tree, UploadSplits[split], CLASS_NAMES[cls])
            /\ idx' = 0
            /\ progress' = "none"
            /\ pc' = "image"
            /\ UNCHANGED << split, cls >>
    /\ UNCHANGED << inputV, pkgV, cfgV, netV, valV, ran, failedAt, reported,
                    answer, yamlWritten, total_uploaded, attempted, failed,
                    success >>

\* What one iteration prints after project.upload: the progress line is
\* inside the try block, after the upload call and the increment.
ProgressLine(ok, i, len) ==
    IF ok
    THEN (IF i % ProgressEvery = 0 \/ i = len THEN "progress" ELSE "nothing")
    ELSE "failure"

\* A counter that also counts the uploads that raised.
CountedAlways(ok, total) == total + 1

\* total_uploaded after one iteration.
Counted(ok, total) == IF ok THEN total + 1 ELSE total

\* One iteration of `for idx, image_path in enumerate(images, 1)`:
\* project.upload either returns or raises, and the exception is caught.
UploadImage ==
    /\ script = "uploader" /\ pc = "image" /\ idx < n
    /\ \E ok \in BOOLEAN :
          /\ idx' = idx + 1
          /\ calls' = calls \cup {"upload"}
          /\ attempted' = attempted + 1
          /\ failed' = IF ok THEN failed ELSE failed + 1
          /\ total_uploaded' = Counted(ok, total_uploaded)
          /\ progress' = ProgressLine(ok, idx + 1, n)
    /\ UNCHANGED << inputV, pkgV, cfgV, authResult, projResult, valV, pc, ran,
                    failedAt, reported, answer, yamlWritten, split, cls, n,
                    success >>

\* The inner loop is exhausted: on to the next class or split.
BatchEnd ==
    /\ script = "uploader" /\ pc = "image" /\ idx = n
    /\ split' = NextSplit(split, cls) /\ cls' = NextClass(split, cls)
    /\ pc' = "batch"
    /\ UNCHANGED << inputV, pkgV, cfgV, netV, valV, ran, failedAt, reported,
                    answer, yamlWritten, n, idx, total_uploaded, attempted,
                    failed, progress, success >>

\* A final report that returns False when some upload raised.
UploadReportStrict ==
    /\ script = "uploader" /\ pc = "batch" /\ split > Len(UploadSplits)
    /\ success' = IF failed = 0 THEN "True" ELSE "False"
    /\ pc' = "exit"
    /\ UNCHANGED << inputV, pkgV, cfgV, netV, loopV, valV, ran, failedAt,
                    reported, answer, yamlWritten >>

\* After the loops: the final report, return True.
UploadReport ==
    /\ script = "uploader" /\ pc = "batch" /\ split > Len(UploadSplits)
    /\ success' = "True"
    /\ pc' = "exit"
    /\ UNCHANGED << inputV, pkgV, cfgV, netV, loopV, valV, ran, failedAt,
                    reported, answer, yamlWritten >>

\* sys.exit(0 if success else 1); an uncaught exception also exits with 1.
ExitCode == IF success = "True" THEN 0 ELSE 1

----------------------------------------------------------------------------
(* The validator: test_setup.py *)

Bool(b) == IF b THEN "True" ELSE "False"

\* test_env_file's verdict on the file's lines.
MissingInFile(f) == {k \in Range(required_keys) : ~Truthy(f.kv[k])}

TestEnvFile ==
    /\ script = "validator" /\ pc = "test_env_file"
    /\ ran' = Append(ran, "test_env_file")
    /\ IF ~dotfile.exists
       THEN /\ results' = [results EXCEPT !.env = "False"]
            /\ UNCHANGED reported
       ELSE /\ reported' = MissingInFile(dotfile)
            /\ results' = [results EXCEPT !.env = Bool(MissingInFile(dotfile) = {})]
    /\ pc' = "test_packages"
    /\ UNCHANGED << inputV, pkgV, cfgV, netV, loopV, total_images, failedAt,
                    answer, yamlWritten, success >>

TestPackages ==
    /\ script = "validator" /\ pc = "test_packages"
    /\ ran' = Append(ran, "test_packages")
    /\ results' = [results EXCEPT !.pkg = Bool(sdkInstalled /\ dotenvInstalled)]
    /\ pc' = "test_dataset_structure"
    /\ UNCHANGED << inputV, pkgV, cfgV, netV, loopV, total_images, failedAt,
                    reported, answer, yamlWritten, success >>

\* `from dotenv import load_dotenv` is outside any try: without the package
\* the ImportError leaves test_dataset_structure and main.
TestDatasetStructure ==
    /\ script = "validator" /\ pc = "test_dataset_structure"
    /\ ran' = Append(ran, "test_dataset_structure")
    /\ IF ~dotenvInstalled
       THEN /\ success' = "raised"
            /\ pc' = "exit"
            /\ UNCHANGED << environ, valV >>
       ELSE /\ environ' = load_dotenv(environ, dotfile)
            /\ results' = [results EXCEPT !.struct = Bool(test_dataset_structure(tree))]
            /\ total_images' = IF RootExists(tree) THEN TotalImages(tree)
                               ELSE total_images
            /\ pc' = "test_connection"
            /\ UNCHANGED success
    /\ UNCHANGED << inputV, pkgV, DOTENV_AVAILABLE, config, netV, loopV,
                    failedAt, reported, answer, yamlWritten >>

\* A lookup whose failure fails the connectivity check.
project_lookup_strict(ok) == IF ok THEN "True" ELSE "False"

\* test_connection's return value once authentication has succeeded and the
\* configured project was looked up: True whether or not the lookup raised.
project_lookup_result(ok) == "True"

TestConnection ==
    /\ script = "validator" /\ pc = "test_connection"
    /\ ran' = Append(ran, "test_connection")
    /\ pc' = "summary"
    /\ IF ~dotenvInstalled
       THEN /\ results' = [results EXCEPT !.conn = "False"]
            /\ UNCHANGED << environ, netV, reported >>
       ELSE
         /\ environ' = load_dotenv(environ, dotfile)
         /\ IF ~Truthy(getenv(environ', API))
            THEN /\ results' = [results EXCEPT !.conn = "False"]
                 /\ reported' = reported \cup {API}
                 /\ UNCHANGED netV
            ELSE
              /\ UNCHANGED reported
              /\ IF ~sdkInstalled
                 THEN /\ results' = [results EXCEPT !.conn = "False"]
                      /\ UNCHANGED netV
                 ELSE \E authOk \in BOOLEAN, projOk \in BOOLEAN :
                        /\ authResult' = IF authOk THEN "ok" ELSE "raised"
                        /\ IF ~authOk
                           THEN /\ calls' = calls \cup {"authenticate"}
                                /\ UNCHANGED projResult
                                /\ results' = [results EXCEPT !.conn = "False"]
                           ELSE IF Truthy(getenv(environ', WS)) /\ Truthy(getenv(environ', PROJ))
                           THEN /\ calls' = calls \cup {"authenticate", "resolve"}
                                /\ projResult' = IF projOk THEN "ok" ELSE "raised"
                                /\ results' = [results EXCEPT
                                                 !.conn = project_lookup_result(projOk)]
                           ELSE /\ calls' = calls \cup {"authenticate"}
                                /\ UNCHANGED projResult
                                /\ results' = [results EXCEPT !.conn = "True"]
    /\ UNCHANGED << inputV, pkgV, DOTENV_AVAILABLE, config, loopV, total_images,
                    failedAt, answer, yamlWritten, success >>

\* main's summary: all(results.values()).
Summary ==
    /\ script = "validator" /\ pc = "summary"
    /\ success' = Bool(/\ results.env = "True" /\ results.pkg = "True"
                       /\ results.struct = "True" /\ results.conn = "True")
    /\ pc' = "exit"
    /\ UNCHANGED << inputV, pkgV, cfgV, netV, loopV, valV, ran, failedAt,
                    reported, answer, yamlWritten >>

----------------------------------------------------------------------------

Next ==
    \/ ImportDotenv \/ LoadConfig
    \/ MainConfig \/ MainSdk \/ MainVerify \/ MainYaml \/ MainAuth \/ MainConfirm
    \/ UploadResolve \/ BatchStart \/ UploadImage \/ BatchEnd \/ UploadReport
    \/ TestEnvFile \/ TestPackages \/ TestDatasetStructure \/ TestConnection
    \/ Summary

Spec == Init /\ [][Next]_vars

TypeOK ==
    /\ script \in {"uploader", "validator"}
    /\ success \in {"pending", "True", "False", "raised"}
    /\ total_uploaded \in Nat /\ attempted \in Nat /\ failed \in Nat
    /\ idx \in 0..n
    /\ calls \subseteq {"authenticate", "resolve", "upload"}

----------------------------------------------------------------------------
(* Properties *)

RECURSIVE SumOver(_, _)
SumOver(S, f) ==
    IF S = {} THEN 0
    ELSE LET x == CHOOSE y \in S : TRUE IN f[x] + SumOver(S \ {x}, f)

\* N: the image files of the tree, over the split/class directories that exist.
ImagesOf(t) == SumOver({d \in AllDirs : d[1] \in t.splits /\ d \in t.dirs}, t.count)

\* No split and no split/class directory is missing.
NoMissingDir(t) == t.root /\ t.splits = Splits /\ t.dirs = AllDirs

\* The value a key has for a script that calls load_dotenv(): the
\* environment's if it defines the key, the file's otherwise.
Effective(k) == IF procenv[k] /= None THEN procenv[k] ELSE dotfile.kv[k]

\* The uploader's configured value of a key.
Configured(k) ==
    IF k = API THEN config.api_key
    ELSE IF k = WS THEN config.workspace_id
    ELSE IF k = PROJ THEN config.project_id
    ELSE config.dataset_path

Uploader == script = "uploader"
Validator == script = "validator"
Loaded == pc \notin {"module", "load_config"}

StageOrder == <<"config", "sdk", "verify", "yaml", "auth", "confirm", "upload">>
CheckOrder == <<"test_env_file", "test_packages", "test_dataset_structure",
                "test_connection">>

IsPrefix(a, b) == Len(a) <= Len(b) /\ \A i \in 1..Len(a) : a[i] = b[i]

\* C1: once the workspace and project are resolved, the loop calls
\* project.upload for every one of the N images of the tree, the counter
\* counts exactly the calls that returned, and the final total is N - U.
C1_UploadCount ==
    (Uploader /\ projResult = "ok") =>
        /\ total_uploaded = attempted - failed
        /\ attempted <= ImagesOf(tree)
        /\ pc = "exit" => /\ attempted = ImagesOf(tree)
                          /\ total_uploaded = ImagesOf(tree) - failed

\* A finished upload in which some calls raised and some returned.
C1_Witness ==
    /\ Uploader /\ projResult = "ok" /\ pc = "exit"
    /\ failed >= 1 /\ total_uploaded >= 1

\* C2: the uploader's stages run in the fixed order; a stage that fails is
\* the last one that runs; without workspace or project id the structure
\* check never runs; no image is uploaded unless the answer was y or Y.
C2_GatedPipeline ==
    Uploader =>
        /\ IsPrefix(ran, StageOrder)
        /\ failedAt /= "none" =>
              /\ ran /= << >> /\ ran[Len(ran)] = failedAt
              /\ pc = "exit" /\ success = "False"
        /\ (~Truthy(config.workspace_id) \/ ~Truthy(config.project_id)) =>
              "verify" \notin Range(ran)
        /\ ("upload" \in Range(ran) \/ attempted > 0) => Lower(answer) = "y"

\* main stopped at the configuration check with an API key but no workspace id.
C2_Witness ==
    /\ Uploader /\ pc = "exit" /\ failedAt = "config"
    /\ Truthy(config.api_key) /\ ~Truthy(config.workspace_id)

\* C3: every run of the validator's main runs the four checks and each
\* contributes its boolean to the summary.
C3_AllChecksRun ==
    (Validator /\ pc = "exit") =>
        /\ ran = CheckOrder
        /\ \A r \in {results.env, results.pkg, results.struct, results.conn} :
              r \in {"True", "False"}

\* C4 as stated: the uploader's check accepts exactly the trees the
\* validator's check accepts and that have no missing directory.
C4_UploaderStricter ==
    (Uploader /\ "verify" \in Range(ran)) =>
        ((failedAt /= "verify") <=>
            (test_dataset_structure(tree) /\ NoMissingDir(tree)))

\* C4 amended: the uploader's check accepts exactly the trees without a
\* missing split or split/class directory, whatever their number of images;
\* the validator's check accepts only trees with at least one image.
C4_UploaderAcceptsComplete ==
    /\ (Uploader /\ "verify" \in Range(ran)) =>
          ((failedAt /= "verify") <=> NoMissingDir(tree))
    /\ (Validator /\ results.struct = "True") => ImagesOf(tree) > 0

\* The uploader accepted a complete tree that holds no image.
C4_Witness ==
    /\ Uploader /\ "verify" \in Range(ran) /\ failedAt /= "verify"
    /\ ImagesOf(tree) = 0

\* C5: the uploader exits with 0 exactly when the end of the upload loop was
\* reached, and with 1 exactly when a gating step failed.
C5_ExitCode ==
    (Uploader /\ pc = "exit") =>
        /\ ExitCode = 0 <=> (projResult = "ok" /\ split > Len(UploadSplits))
        /\ ExitCode = 1 <=> failedAt \in Range(StageOrder)
        /\ ExitCode \in {0, 1}

\* Exit code 0 although every upload call raised.
C5_Witness ==
    /\ Uploader /\ pc = "exit" /\ ExitCode = 0
    /\ attempted >= 1 /\ failed = attempted

\* C6: once test_dataset_structure has been called, it has returned False
\* for a tree without images and True, with the sum of the images of the
\* existing directories as the reported total, for a tree with images.
C6_StructureCheck ==
    (Validator /\ "test_dataset_structure" \in Range(ran)) =>
        /\ results.struct = Bool(ImagesOf(tree) > 0)
        /\ ImagesOf(tree) > 0 => total_images = ImagesOf(tree)

C8_Connection ==
    (Validator /\ results.conn /= "unset") =>
        /\ (~Truthy(Effective(API)) \/ authResult = "raised") =>
              results.conn = "False"
        /\ authResult = "ok" => results.conn = "True"

\* The check passed although the lookup of the configured project raised.
C8_Witness ==
    /\ Validator /\ results.conn = "True"
    /\ authResult = "ok" /\ projResult = "raised"

\* C9: a key defined both in the .env file and in the process environment
\* has the environment's value in the config load_config returns.
C9_EnvironmentWins ==
    (Uploader /\ Loaded) =>
        \A k \in Keys :
            (procenv[k] /= None /\ dotfile.exists /\ dotfile.kv[k] /= None) =>
                Configured(k) = procenv[k]

\* C10: after the iteration for an index that is a multiple of 10 or the
\* last of its batch, a progress line has been printed.
C10_ProgressLines ==
    (Uploader /\ pc = "image" /\ idx >= 1
       /\ (idx % ProgressEvery = 0 \/ idx = n)) => progress = "progress"

====
